---- MODULE Spec2Model ----
(***************************************************************************)
(* The reminder specification parser of SAM (bot/remindme/parser.py).      *)
(*                                                                         *)
(* parse(text, ref_dt) is modelled as a state machine: one action per      *)
(* stage of parse (the tomorrow check, parse_reminder_message, the three   *)
(* resolvers, the final checks), each translated from the code.  Texts     *)
(* are sequences of characters, so that prefix tests, slices by length,    *)
(* strip()/split() and the regular expressions of the pattern tables act   *)
(* on the characters exactly as the Python code does.                      *)
(***************************************************************************)
EXTENDS Integers, Sequences, FiniteSets, TLC

(***************************************************************************)
(* Bounds of the model.                                                    *)
(***************************************************************************)
\* the longest input of the general family, in whitespace-separated tokens
MaxTokens == 3
\* the longest input of the duration family, in tokens
MaxDurTokens == 4
\* the length of the over-long message word
LongLen == 1751
\* the most (value, keyword) pairs of a duration phrase
MaxPairs == 3

(***************************************************************************)
(* Python values: None and an optional value, exceptions.                  *)
(***************************************************************************)
\* None / a value x that may be None: <<>> / <<x>>
None == <<>>
Some(x) == <<x>>
IsNone(o) == o = <<>>
Val(o) == o[1]

\* the (unset) text a resolver returns next to None, and the empty string
EmptyStr == <<>>

(***************************************************************************)
(* str: a sequence of characters.                                          *)
(***************************************************************************)
Whitespace == {" ", "\t", "\n"}
Digits == {"0", "1", "2", "3", "4", "5", "6", "7", "8", "9"}
quote_character == "\""

UpperToLower ==
    [c \in {"A", "B", "C", "D", "E", "F", "G", "H", "I", "J", "K", "L", "M",
            "N", "O", "P", "Q", "R", "S", "T", "U", "V", "W", "X", "Y", "Z"} |->
        CASE c = "A" -> "a" [] c = "B" -> "b" [] c = "C" -> "c" [] c = "D" -> "d"
          [] c = "E" -> "e" [] c = "F" -> "f" [] c = "G" -> "g" [] c = "H" -> "h"
          [] c = "I" -> "i" [] c = "J" -> "j" [] c = "K" -> "k" [] c = "L" -> "l"
          [] c = "M" -> "m" [] c = "N" -> "n" [] c = "O" -> "o" [] c = "P" -> "p"
          [] c = "Q" -> "q" [] c = "R" -> "r" [] c = "S" -> "s" [] c = "T" -> "t"
          [] c = "U" -> "u" [] c = "V" -> "v" [] c = "W" -> "w" [] c = "X" -> "x"
          [] c = "Y" -> "y" [] c = "Z" -> "z"]

\* str.lower()
LowerChar(c) == IF c \in DOMAIN UpperToLower THEN UpperToLower[c] ELSE c
Lower(s) == [i \in 1..Len(s) |-> LowerChar(s[i])]

\* s[n:] and s[:n], for 0 <= n
From(s, n) == IF n >= Len(s) THEN <<>> ELSE SubSeq(s, n + 1, Len(s))
Upto(s, n) == IF n >= Len(s) THEN s ELSE SubSeq(s, 1, n)

\* str.startswith
StartsWith(s, prefix) ==
    /\ Len(s) >= Len(prefix)
    /\ SubSeq(s, 1, Len(prefix)) = prefix

\* the number of leading / trailing whitespace characters of s
RECURSIVE LeadingSpace(_, _)
LeadingSpace(s, n) ==
    IF n < Len(s) /\ s[n + 1] \in Whitespace THEN LeadingSpace(s, n + 1) ELSE n

RECURSIVE TrailingSpace(_, _)
TrailingSpace(s, n) ==
    IF n < Len(s) /\ s[Len(s) - n] \in Whitespace THEN TrailingSpace(s, n + 1) ELSE n

\* str.lstrip(), str.rstrip(), str.strip()
LStrip(s) == From(s, LeadingSpace(s, 0))
RStrip(s) == Upto(s, Len(s) - TrailingSpace(s, 0))
Strip(s) == RStrip(LStrip(s))

\* str.count(c)
Count(s, c) == Cardinality({i \in 1..Len(s) : s[i] = c})

\* str.find(c) and str.rfind(c) as 0-based indexes, for a c that occurs in s
RECURSIVE FindFrom(_, _, _)
FindFrom(s, c, i) == IF s[i + 1] = c THEN i ELSE FindFrom(s, c, i + 1)

RECURSIVE RFindFrom(_, _, _)
RFindFrom(s, c, i) == IF s[i + 1] = c THEN i ELSE RFindFrom(s, c, i - 1)
RFind(s, c) == RFindFrom(s, c, Len(s) - 1)

\* str.rfind(c) in the place of str.find(c): the last occurrence of c
FindLast(s, c) == RFindFrom(s, c, Len(s) - 1)

Find(s, c) == FindFrom(s, c, 0)

\* the length of the first whitespace-free run of s (s has no leading whitespace)
RECURSIVE WordLen(_, _)
WordLen(s, n) ==
    IF n < Len(s) /\ s[n + 1] \notin Whitespace THEN WordLen(s, n + 1) ELSE n

\* str.split(): the whitespace-separated pieces of s
RECURSIVE Split(_)
Split(s) ==
    LET t == LStrip(s)
        n == WordLen(t, 0)
    IN  IF t = <<>> THEN <<>> ELSE <<Upto(t, n)>> \o Split(From(t, n))

\* str.split(maxsplit=2): at most two pieces and the rest, the rest with its
\* leading whitespace removed and its trailing whitespace kept
SplitMax2(s) ==
    LET t1 == LStrip(s)
        n1 == WordLen(t1, 0)
        t2 == LStrip(From(t1, n1))
        n2 == WordLen(t2, 0)
        t3 == LStrip(From(t2, n2))
    IN  IF t1 = <<>> THEN <<>>
        ELSE IF t2 = <<>> THEN <<Upto(t1, n1)>>
        ELSE IF t3 = <<>> THEN <<Upto(t1, n1), Upto(t2, n2)>>
        ELSE <<Upto(t1, n1), Upto(t2, n2), t3>>

(***************************************************************************)
(* The keyword tables.                                                     *)
(***************************************************************************)
TOMORROW_KEYWORDS ==
    << <<"t", "o", "m", "o", "r", "r", "o", "w">>,
       <<"m", "o", "r", "g", "e", "n">> >>

PART_OF_DAY_KEYWORDS ==
    << [hour |-> 5, keywords |-> << <<"d", "a", "w", "n">>,
            <<"t", "a", "g", "e", "s", "a", "n", "b", "r", "u", "c", "h">> >>],
       [hour |-> 7, keywords |-> << <<"m", "o", "r", "n", "i", "n", "g">>,
            <<"f", "r", "ü", "h">>,
            <<"f", "r", "u", "e", "h">> >>],
       [hour |-> 10, keywords |-> << <<"f", "o", "r", "e", "n", "o", "o", "n">>,
            <<"v", "o", "r", "m", "i", "t", "t", "a", "g">> >>],
       [hour |-> 12, keywords |-> << <<"n", "o", "o", "n">>,
            <<"m", "i", "d", "d", "a", "y">>,
            <<"l", "u", "n", "c", "h", "t", "i", "m", "e">>,
            <<"m", "i", "t", "t", "a", "g">> >>],
       [hour |-> 14, keywords |-> << <<"a", "f", "t", "e", "r", "n", "o", "o", "n">>,
            <<"n", "a", "c", "h", "m", "i", "t", "t", "a", "g">> >>],
       [hour |-> 16, keywords |-> << <<"t", "e", "a", "t", "i", "m", "e">>,
            <<"t", "e", "e", "z", "e", "i", "t">> >>],
       [hour |-> 18, keywords |-> << <<"e", "v", "e", "n", "i", "n", "g">>,
            <<"a", "b", "e", "n", "d">> >>],
       [hour |-> 22, keywords |-> << <<"n", "i", "g", "h", "t">>,
            <<"n", "a", "c", "h", "t">> >>],
       [hour |-> 0, keywords |-> << <<"m", "i", "d", "n", "i", "g", "h", "t">>,
            <<"m", "i", "t", "t", "e", "r", "n", "a", "c", "h", "t">> >>] >>

DURATION_KEYWORDS ==
    << [key |-> "years", variations |-> << <<"y">>,
            <<"y", "e", "a", "r", "s">>,
            <<"y", "e", "a", "r">>,
            <<"j", "a", "h", "r", "e">>,
            <<"j", "a", "h", "r">> >>],
       [key |-> "months", variations |-> << <<"m">>,
            <<"m", "o", "n", "t", "h", "s">>,
            <<"m", "o", "n", "t", "h">>,
            <<"m", "o", "n", "a", "t", "e">>,
            <<"m", "o", "n", "a", "t">> >>],
       [key |-> "weeks", variations |-> << <<"w">>,
            <<"w", "e", "e", "k", "s">>,
            <<"w", "e", "e", "k">>,
            <<"w", "o", "c", "h", "e", "n">>,
            <<"w", "o", "c", "h", "e">> >>],
       [key |-> "days", variations |-> << <<"d">>,
            <<"d", "a", "y", "s">>,
            <<"d", "a", "y">>,
            <<"t", "a", "g", "e">>,
            <<"t", "a", "g">> >>],
       [key |-> "hours", variations |-> << <<"h">>,
            <<"h", "o", "u", "r", "s">>,
            <<"h", "o", "u", "r">>,
            <<"s", "t", "u", "n", "d", "e", "n">>,
            <<"s", "t", "u", "n", "d", "e">> >>],
       [key |-> "minutes", variations |-> << <<"m", "i", "n">>,
            <<"m", "i", "n", "u", "t", "e", "s">>,
            <<"m", "i", "n", "u", "t", "e">>,
            <<"m", "i", "n", "u", "t", "e", "n">> >>] >>

(***************************************************************************)
(* The date and time patterns.  A pattern is a sequence of items: a        *)
(* character class that is optional (X?) or not, or the negative lookahead *)
(* of the 24-hour pattern.  re.IGNORECASE is in the AM/PM classes.         *)
(***************************************************************************)
AnyChar == {"any"}
Cls(set) == [kind |-> "class", chars |-> set, optional |-> FALSE]
Opt(set) == [kind |-> "class", chars |-> set, optional |-> TRUE]
NotAmPm == [kind |-> "not_ampm", chars |-> {}, optional |-> FALSE]

D == Cls(Digits)
D01 == Opt({"0", "1"})
D0123 == Opt({"0", "1", "2", "3"})
D012 == Opt({"0", "1", "2"})
D012345 == Cls({"0", "1", "2", "3", "4", "5"})
Dash == Cls({"-"})
Dot == Cls({"."})
Slash == Cls({"/"})
Colon == Cls({":"})
Blank == Cls({" "})
AP == Cls({"a", "p", "A", "P"})
MM == Cls({"m", "M"})

REGEXES_DATE ==
    << [regex |-> <<D, D, D, D, Dash, D01, D, Dash, D0123, D>>, format |-> "%Y-%m-%d"],
       [regex |-> <<D, D, Dash, D01, D, Dash, D0123, D>>, format |-> "%y-%m-%d"],
       [regex |-> <<D01, D, Dash, D0123, D>>, format |-> "%m-%d"],
       [regex |-> <<D0123, D, Dot, D01, D, Dot, D, D, D, D>>, format |-> "%d.%m.%Y"],
       [regex |-> <<D0123, D, Dot, D01, D, Dot, D, D>>, format |-> "%d.%m.%y"],
       [regex |-> <<D0123, D, Dot, D01, D, Cls(AnyChar)>>, format |-> "%d.%m."],
       [regex |-> <<D01, D, Slash, D0123, D, Slash, D, D, D, D>>, format |-> "%m/%d/%Y"],
       [regex |-> <<D01, D, Slash, D0123, D, Slash, D, D>>, format |-> "%m/%d/%y"],
       [regex |-> <<D01, D, Slash, D0123, D>>, format |-> "%m/%d"] >>

REGEXES_TIME ==
    << [regex |-> <<D012, D, Colon, D012345, D, Blank, AP, MM>>, format |-> "%I:%M %p"],
       [regex |-> <<D012, D, Colon, D012345, D, AP, MM>>, format |-> "%I:%M%p"],
       [regex |-> <<D012, D, Colon, D012345, D, NotAmPm>>, format |-> "%H:%M"] >>

\* does character c belong to the class of a pattern item ("." takes any
\* character but a newline)
InClass(c, item) ==
    IF item.chars = AnyChar THEN c # "\n" ELSE c \in item.chars

\* (?![ ]?(AM|PM)) at 0-based position pos of s
IsAmPmAt(s, pos) ==
    /\ Len(s) >= pos + 2
    /\ s[pos + 1] \in AP.chars
    /\ s[pos + 2] \in MM.chars
NoAmPmAhead(s, pos) ==
    /\ ~IsAmPmAt(s, pos)
    /\ ~(Len(s) > pos /\ s[pos + 1] = " " /\ IsAmPmAt(s, pos + 1))

\* re.Pattern.match: the end of the match of items i.. of the pattern at
\* position pos of s, trying an optional item first (greedy) and then
\* without it; -1 if there is no match
RECURSIVE MatchAt(_, _, _, _)
MatchAt(regex, i, s, pos) ==
    IF i > Len(regex) THEN pos
    ELSE LET item == regex[i]
             fits == pos < Len(s) /\ InClass(s[pos + 1], item)
             taken == IF fits THEN MatchAt(regex, i + 1, s, pos + 1) ELSE -1
         IN  IF item.kind = "not_ampm"
             THEN IF NoAmPmAhead(s, pos) THEN MatchAt(regex, i + 1, s, pos) ELSE -1
             ELSE IF item.optional /\ taken < 0
                  THEN MatchAt(regex, i + 1, s, pos)
                  ELSE taken
Match(regex, s) == MatchAt(regex, 1, s, 0)

(***************************************************************************)
(* datetime: a date is a record [year, month, day]; a time of day is a     *)
(* number of seconds since 00:00:00; a datetime is [date, time].           *)
(***************************************************************************)
IsLeap(year) == year % 4 = 0 /\ (year % 100 # 0 \/ year % 400 = 0)

DaysInMonth(year, month) ==
    CASE month \in {1, 3, 5, 7, 8, 10, 12} -> 31
      [] month \in {4, 6, 9, 11} -> 30
      [] OTHER -> IF IsLeap(year) THEN 29 ELSE 28

\* the days before January 1st of the year, and before the 1st of the month
DaysBeforeYear(year) ==
    LET y == year - 1 IN y * 365 + (y \div 4) - (y \div 100) + (y \div 400)

RECURSIVE DaysBeforeMonth(_, _)
DaysBeforeMonth(year, month) ==
    IF month = 1 THEN 0
    ELSE DaysBeforeMonth(year, month - 1) + DaysInMonth(year, month - 1)

\* date.toordinal() and date.fromordinal()
ToOrdinal(date) ==
    DaysBeforeYear(date.year) + DaysBeforeMonth(date.year, date.month) + date.day

FromOrdinal(n) ==
    LET year == CHOOSE y \in ((n \div 366) - 1)..((n \div 365) + 1) :
                    DaysBeforeYear(y) < n /\ n <= DaysBeforeYear(y + 1)
        rest == n - DaysBeforeYear(year)
        month == CHOOSE m \in 1..12 :
                    /\ DaysBeforeMonth(year, m) < rest
                    /\ rest <= DaysBeforeMonth(year, m) + DaysInMonth(year, m)
    IN  [year |-> year, month |-> month, day |-> rest - DaysBeforeMonth(year, month)]

Date(year, month, day) == [year |-> year, month |-> month, day |-> day]
Time(hour, minute, second) == hour * 3600 + minute * 60 + second
DateTime(date, time) == [date |-> date, time |-> time]

SecondsPerDay == 24 * 60 * 60

\* dt + datetime.timedelta(seconds)
AddSeconds(dt, seconds) ==
    LET total == dt.time + seconds
        days == IF total >= 0 THEN total \div SecondsPerDay
                ELSE -((SecondsPerDay - 1 - total) \div SecondsPerDay)
    IN  DateTime(FromOrdinal(ToOrdinal(dt.date) + days), total - days * SecondsPerDay)

\* dt + datetime.timedelta(days=n)
AddDays(dt, n) == AddSeconds(dt, n * SecondsPerDay)

\* date_1 < date_2, and dt_1 < dt_2
DateBefore(d1, d2) == ToOrdinal(d1) < ToOrdinal(d2)
Before(dt1, dt2) ==
    \/ DateBefore(dt1.date, dt2.date)
    \/ dt1.date = dt2.date /\ dt1.time < dt2.time

(***************************************************************************)
(* Exceptions and the results of the parsing functions.                    *)
(***************************************************************************)
NoError == [type |-> "", message |-> "", args |-> <<>>]
ReminderParseError(message, args) ==
    [type |-> "ReminderParseError", message |-> message, args |-> args]
\* the plain ValueError that datetime.strptime and relativedelta raise
ValueError(message) == [type |-> "ValueError", message |-> message, args |-> <<>>]

\* a function returned (dt, text), returned (None, None), or raised error
Returned(dt, text) == [error |-> NoError, dt |-> Some(dt), text |-> text]
ReturnedNone == [error |-> NoError, dt |-> None, text |-> EmptyStr]
Raised(error) == [error |-> error, dt |-> None, text |-> EmptyStr]
HasRaised(r) == r.error.type # ""

(***************************************************************************)
(* datetime.strptime for the formats of the pattern tables.                *)
(***************************************************************************)
DigitValue ==
    [c \in Digits |->
        CASE c = "0" -> 0 [] c = "1" -> 1 [] c = "2" -> 2 [] c = "3" -> 3
          [] c = "4" -> 4 [] c = "5" -> 5 [] c = "6" -> 6 [] c = "7" -> 7
          [] c = "8" -> 8 [] c = "9" -> 9]

\* int() of a string of digits
RECURSIVE ToInt(_)
ToInt(s) ==
    IF s = <<>> THEN 0 ELSE ToInt(Upto(s, Len(s) - 1)) * 10 + DigitValue[s[Len(s)]]

\* the length of the run of digits at the start of s
RECURSIVE DigitsLen(_, _)
DigitsLen(s, n) ==
    IF n < Len(s) /\ s[n + 1] \in Digits THEN DigitsLen(s, n + 1) ELSE n

\* the numbers written in s, in order (its maximal runs of digits)
RECURSIVE Numbers(_)
Numbers(s) ==
    IF s = <<>> THEN <<>>
    ELSE IF s[1] \in Digits
         THEN LET n == DigitsLen(s, 0) IN <<ToInt(Upto(s, n))>> \o Numbers(From(s, n))
         ELSE Numbers(Tail(s))

\* %y: 69..99 are 1969..1999 and 0..68 are 2000..2068
TwoDigitYear(yy) == IF yy >= 69 THEN 1900 + yy ELSE 2000 + yy

IsValidDate(year, month, day) ==
    /\ year \in 1..9999
    /\ month \in 1..12
    /\ day >= 1
    /\ day <= DaysInMonth(year, month)

\* datetime.strptime(date_str, date_format).date() for a date_str that a
\* date pattern matched, after _normalize_date_str: None for the ValueError
\* of a string that does not fit the format or is not a calendar date.
\* The literal "." that ends "%d.%m." must be in the string.
StrptimeDate(date_str, date_format) ==
    LET n == Numbers(date_str)
        date ==
            CASE date_format = "%Y-%m-%d" -> Date(n[1], n[2], n[3])
              [] date_format = "%y-%m-%d" -> Date(TwoDigitYear(n[1]), n[2], n[3])
              [] date_format = "%m-%d %Y" -> Date(n[3], n[1], n[2])
              [] date_format = "%d.%m.%Y" -> Date(n[3], n[2], n[1])
              [] date_format = "%d.%m.%y" -> Date(TwoDigitYear(n[3]), n[2], n[1])
              [] date_format = "%d.%m. %Y" -> Date(n[3], n[2], n[1])
              [] date_format = "%m/%d/%Y" -> Date(n[3], n[1], n[2])
              [] date_format = "%m/%d/%y" -> Date(TwoDigitYear(n[3]), n[1], n[2])
              [] date_format = "%m/%d %Y" -> Date(n[3], n[1], n[2])
        literals_fit ==
            date_format = "%d.%m. %Y" =>
                LET d == Upto(date_str, Len(date_str) - 5) IN d[Len(d)] = "."
    IN  IF literals_fit /\ IsValidDate(date.year, date.month, date.day)
        THEN Some(date) ELSE None

\* datetime.strptime(time_str, time_format).time() for a time_str that a
\* time pattern matched: None for the ValueError of an hour that is out of
\* the range of %H (0..23) or of %I (1..12)
StrptimeTime(time_str, time_format) ==
    LET n == Numbers(time_str)
        hour == n[1]
        minute == n[2]
        pm == time_str[Len(time_str) - 1] \in {"p", "P"}
    IN  IF time_format = "%H:%M"
        THEN IF hour <= 23 THEN Some(Time(hour, minute, 0)) ELSE None
        ELSE IF hour \in 1..12
             THEN Some(Time((hour % 12) + (IF pm THEN 12 ELSE 0), minute, 0))
             ELSE None

(***************************************************************************)
(* _match_timestamp_date, _match_timestamp_time, _normalize_date_str       *)
(***************************************************************************)
\* the first pattern of the table that matches at the start of s:
\* (the matched string, the format), or None
RECURSIVE FirstMatch(_, _, _)
FirstMatch(patterns, i, s) ==
    IF i > Len(patterns) THEN None
    ELSE LET end == Match(patterns[i].regex, s)
         IN  IF end >= 0
             THEN Some([str |-> Upto(s, end), format |-> patterns[i].format])
             ELSE FirstMatch(patterns, i + 1, s)

_match_timestamp_date(text) == FirstMatch(REGEXES_DATE, 1, Strip(text))

MidnightAs2400 == <<"2", "4", ":", "0", "0">>
MidnightAs0000 == <<"0", "0", ":", "0", "0">>

_match_timestamp_time(text) ==
    LET lowered == Lower(Strip(text))
        text_ == IF StartsWith(lowered, MidnightAs2400)
                 THEN MidnightAs0000 \o From(lowered, 5)
                 ELSE lowered
    IN  FirstMatch(REGEXES_TIME, 1, text_)

\* the year of ref_dt as strftime(" %Y") writes it
RECURSIVE DigitsOf(_, _)
DigitsOf(n, width) ==
    IF width = 0 THEN <<>>
    ELSE DigitsOf(n \div 10, width - 1) \o
         <<CHOOSE c \in Digits : DigitValue[c] = n % 10>>

HasYear(date_format) ==
    date_format \in {"%Y-%m-%d", "%y-%m-%d", "%d.%m.%Y", "%d.%m.%y", "%m/%d/%Y", "%m/%d/%y"}

_normalize_date_str(date_str, date_format_str, ref_dt) ==
    IF ~HasYear(date_format_str)
    THEN [str |-> date_str \o <<" ">> \o DigitsOf(ref_dt.date.year, 4),
          format |-> CASE date_format_str = "%m-%d" -> "%m-%d %Y"
                       [] date_format_str = "%d.%m." -> "%d.%m. %Y"
                       [] date_format_str = "%m/%d" -> "%m/%d %Y"]
    ELSE [str |-> date_str, format |-> date_format_str]

(***************************************************************************)
(* parse_reminder_message                                                  *)
(***************************************************************************)
\* the cases of the quote count if one quotation mark made a quoted message
QuoteCaseFromOne(quote_count) ==
    IF quote_count = 0 THEN "unquoted" ELSE "quoted"

\* the three cases of the quote count
QuoteCase(quote_count) ==
    IF quote_count = 0 THEN "unquoted"
    ELSE IF quote_count >= 2 THEN "quoted"
    ELSE "misquoted"

\* [error, time_spec, message]
parse_reminder_message(text) ==
    LET text_ == Strip(text)
        quote_count == Count(text_, quote_character)
        i_message_start == Find(text_, quote_character)
        i_message_end == RFind(text_, quote_character)
        remainder == Strip(From(text_, i_message_end + 1))
    IN  IF QuoteCase(quote_count) = "unquoted"
        THEN [error |-> NoError, time_spec |-> text, message |-> EmptyStr]
        ELSE IF QuoteCase(quote_count) = "quoted"
        THEN IF remainder # <<>>
             THEN [error |-> ReminderParseError("argument after quoted text", <<remainder>>),
                   time_spec |-> EmptyStr, message |-> EmptyStr]
             ELSE [error |-> NoError,
                   time_spec |-> Strip(Upto(text_, i_message_start)),
                   message |-> From(Upto(text_, i_message_end), i_message_start + 1)]
        ELSE [error |-> ReminderParseError("message not correctly quoted", <<text_>>),
              time_spec |-> EmptyStr, message |-> EmptyStr]

(***************************************************************************)
(* parse_day_part                                                          *)
(***************************************************************************)
\* the keywords of the table in iteration order, each with its time
RECURSIVE DayPartEntries(_)
DayPartEntries(i) ==
    IF i > Len(PART_OF_DAY_KEYWORDS) THEN <<>>
    ELSE [k \in 1..Len(PART_OF_DAY_KEYWORDS[i].keywords) |->
            [time_ |-> Time(PART_OF_DAY_KEYWORDS[i].hour, 0, 0),
             keyword |-> PART_OF_DAY_KEYWORDS[i].keywords[k]]]
         \o DayPartEntries(i + 1)

\* the date if a part of day at the reference time itself were still today
DayPartDateStillToday(time_, is_tomorrow, ref_dt) ==
    IF is_tomorrow /\ time_ = Time(0, 0, 0)
    THEN AddDays(ref_dt, 2).date
    ELSE IF is_tomorrow \/ time_ < ref_dt.time
    THEN AddDays(ref_dt, 1).date
    ELSE ref_dt.date

\* the date of the part of day with time time_
DayPartDate(time_, is_tomorrow, ref_dt) ==
    IF is_tomorrow /\ time_ = Time(0, 0, 0)
    THEN AddDays(ref_dt, 2).date
    ELSE IF is_tomorrow \/ time_ <= ref_dt.time
    THEN AddDays(ref_dt, 1).date
    ELSE ref_dt.date

parse_day_part(text, is_tomorrow, ref_dt) ==
    LET text_ == LStrip(text)
        entries == DayPartEntries(1)
        hits == {i \in 1..Len(entries) : StartsWith(Lower(text_), entries[i].keyword)}
    IN  IF hits = {} THEN ReturnedNone
        ELSE LET first == entries[CHOOSE i \in hits : \A j \in hits : i <= j]
             IN  Returned(
                     DateTime(DayPartDate(first.time_, is_tomorrow, ref_dt), first.time_),
                     LStrip(From(text_, Len(first.keyword))))

(***************************************************************************)
(* parse_timestamp                                                         *)
(***************************************************************************)
\* time_ < ref_dt.time()
StrictlyBeforeRefTime(time_, ref_dt) == time_ < ref_dt.time

\* time_ <= ref_dt.time()
NotAfterRefTime(time_, ref_dt) == time_ <= ref_dt.time

\* date_ < ref_dt.date() in the place of not date_ > ref_dt.date()
DateBeforeRefDate(date_, ref_dt) == DateBefore(date_, ref_dt.date)

\* not date_ > ref_dt.date(): a date without a time must be in the future
DateNotAfterRefDate(date_, ref_dt) == ~DateBefore(ref_dt.date, date_)

\* the date was matched first: date, then an optional time
TimestampDateFirst(text, date_match, parse_method, ref_dt) ==
    LET date_str == date_match.str
        normalized == _normalize_date_str(date_str, date_match.format, ref_dt)
        date_ == StrptimeDate(normalized.str, normalized.format)
        text_1 == LStrip(From(text, Len(date_str)))
        time_match == _match_timestamp_time(text_1)
        time_ == StrptimeTime(Val(time_match).str, Val(time_match).format)
        text_2 == LStrip(From(text_1, Len(Val(time_match).str)))
    IN  IF parse_method \notin {"datetime", "date"}
        THEN Raised(ReminderParseError("date given, time only expected", <<>>))
        ELSE IF IsNone(date_)
        THEN Raised(ValueError("strptime"))
        ELSE IF DateBefore(Val(date_), ref_dt.date)
        THEN Raised(ReminderParseError("date is in the past", <<>>))
        ELSE IF ~IsNone(time_match)
        THEN IF parse_method # "datetime"
             THEN Raised(ReminderParseError("time given, date only expected", <<>>))
             ELSE IF IsNone(time_)
             THEN Raised(ValueError("strptime"))
             ELSE IF NotAfterRefTime(Val(time_), ref_dt) /\ Val(date_) = ref_dt.date
             THEN Raised(ReminderParseError("time is in the past", <<>>))
             ELSE Returned(DateTime(Val(date_), Val(time_)), text_2)
        ELSE IF DateNotAfterRefDate(Val(date_), ref_dt)
        THEN Raised(ReminderParseError("date without time must be in the future", <<>>))
        ELSE Returned(DateTime(Val(date_), Time(9, 0, 0)), text_1)

\* no date was matched first: time, then an optional date
TimestampTimeFirst(text, time_match, parse_method, ref_dt) ==
    LET time_str == time_match.str
        time_ == StrptimeTime(time_str, time_match.format)
        text_1 == LStrip(From(text, Len(time_str)))
        date_match == _match_timestamp_date(text_1)
        date_str == Val(date_match).str
        normalized == _normalize_date_str(date_str, Val(date_match).format, ref_dt)
        date_ == StrptimeDate(normalized.str, normalized.format)
        text_2 == LStrip(From(text_1, Len(date_str)))
    IN  IF IsNone(time_)
        THEN Raised(ValueError("strptime"))
        ELSE IF ~IsNone(date_match)
        THEN IF parse_method # "datetime"
             THEN Raised(ReminderParseError("date given, time only expected", <<>>))
             ELSE IF IsNone(date_)
             THEN Raised(ValueError("strptime"))
             ELSE IF DateBefore(Val(date_), ref_dt.date)
             THEN Raised(ReminderParseError("date is in the past", <<>>))
             ELSE IF NotAfterRefTime(Val(time_), ref_dt) /\ Val(date_) = ref_dt.date
             THEN Raised(ReminderParseError("time is in the past", <<>>))
             ELSE Returned(DateTime(Val(date_), Val(time_)), text_2)
        ELSE IF NotAfterRefTime(Val(time_), ref_dt)
        THEN Returned(DateTime(AddDays(ref_dt, 1).date, Val(time_)), text_1)
        ELSE Returned(DateTime(ref_dt.date, Val(time_)), text_1)

parse_timestamp(text, parse_method, ref_dt) ==
    LET text_ == Strip(text)
        date_match == _match_timestamp_date(text_)
        time_match == _match_timestamp_time(text_)
    IN  IF parse_method \notin {"time", "date", "datetime"}
        THEN Raised(ValueError("parse_method"))
        ELSE IF ~IsNone(date_match)
        THEN TimestampDateFirst(text_, Val(date_match), parse_method, ref_dt)
        ELSE IF ~IsNone(time_match)
        THEN TimestampTimeFirst(text_, Val(time_match), parse_method, ref_dt)
        ELSE ReturnedNone

(***************************************************************************)
(* _parse_duration_value, _parse_duration_keyword                          *)
(***************************************************************************)
\* float(s) in tenths, for the numerals [+-]digits[.[digit]]; None for the
\* ValueError of float().  The inputs of the model write no other numerals.
Float(s) ==
    LET signed == s # <<>> /\ s[1] \in {"+", "-"}
        body == IF signed THEN Tail(s) ELSE s
        n == DigitsLen(body, 0)
        rest == From(body, n)
        tenths ==
            ToInt(Upto(body, n)) * 10 + (IF Len(rest) = 2 THEN DigitValue[rest[2]] ELSE 0)
        well_formed ==
            /\ n >= 1
            /\ \/ rest = <<>>
               \/ rest = <<".">>
               \/ Len(rest) = 2 /\ rest[1] = "." /\ rest[2] \in Digits
    IN  IF ~well_formed THEN None
        ELSE IF signed /\ s[1] = "-" THEN Some(-tenths) ELSE Some(tenths)

\* [error, value]: the float in tenths, or the ReminderParseError
_parse_duration_value(duration_value) ==
    LET f == Float(duration_value)
    IN  IF IsNone(f)
        THEN [error |-> ReminderParseError("value is not a number", <<duration_value>>),
              value |-> None]
        ELSE [error |-> NoError, value |-> f]

\* the first key of DURATION_KEYWORDS with the keyword among its variations
RECURSIVE DurationKey(_, _)
DurationKey(keyword, i) ==
    IF i > Len(DURATION_KEYWORDS) THEN None
    ELSE IF \E k \in 1..Len(DURATION_KEYWORDS[i].variations) :
                DURATION_KEYWORDS[i].variations[k] = keyword
         THEN Some(DURATION_KEYWORDS[i].key)
         ELSE DurationKey(keyword, i + 1)

\* [error, key]: the key, or the ReminderParseError
_parse_duration_keyword(duration_keyword) ==
    LET key == DurationKey(Lower(duration_keyword), 1)
    IN  IF IsNone(key)
        THEN [error |-> ReminderParseError("keyword is no duration", <<duration_keyword>>),
              key |-> None]
        ELSE [error |-> NoError, key |-> key]

(***************************************************************************)
(* _extract_message_after_tokens                                           *)
(***************************************************************************)
RECURSIVE StripTokens(_, _)
StripTokens(text_, token_list) ==
    IF token_list = <<>> THEN text_
    ELSE StripTokens(LStrip(From(text_, Len(Head(token_list)))), Tail(token_list))

_extract_message_after_tokens(text, token_list) == StripTokens(Strip(text), token_list)

(***************************************************************************)
(* The duration specifier: the dict duration_spec as the sequence of its   *)
(* (key, value) items in insertion order, the values in tenths.            *)
(***************************************************************************)
InSpec(key, duration_spec) ==
    \E i \in 1..Len(duration_spec) : duration_spec[i].key = key

\* duration_spec[key] = value
SetItem(duration_spec, key, value) ==
    IF InSpec(key, duration_spec)
    THEN [i \in 1..Len(duration_spec) |->
            IF duration_spec[i].key = key
            THEN [key |-> key, value |-> value] ELSE duration_spec[i]]
    ELSE Append(duration_spec, [key |-> key, value |-> value])

\* duration_spec.get(key, 0)
GetItem(duration_spec, key) ==
    IF InSpec(key, duration_spec)
    THEN LET i == CHOOSE j \in 1..Len(duration_spec) : duration_spec[j].key = key
         IN  duration_spec[i].value
    ELSE 0

\* ref_dt + relativedelta(**duration_spec): years and months must be whole
\* numbers (ValueError otherwise) and move the date by calendar months, the
\* day clamped to the length of the month; weeks, days, hours and minutes
\* are added as a timedelta.  None for the ValueError or OverflowError.
DurationSeconds(duration_spec) ==
    (GetItem(duration_spec, "weeks") * 7 + GetItem(duration_spec, "days")) * 8640
    + GetItem(duration_spec, "hours") * 360
    + GetItem(duration_spec, "minutes") * 6

AddRelativeDelta(ref_dt, duration_spec) ==
    LET years == GetItem(duration_spec, "years")
        months == GetItem(duration_spec, "months")
        total == ref_dt.date.year * 12 + (ref_dt.date.month - 1)
                 + (years \div 10) * 12 + (months \div 10)
        year == total \div 12
        month == (total % 12) + 1
        day == IF ref_dt.date.day <= DaysInMonth(year, month)
               THEN ref_dt.date.day ELSE DaysInMonth(year, month)
        moved == DateTime(Date(year, month, day), ref_dt.time)
        result == AddSeconds(moved, DurationSeconds(duration_spec))
    IN  IF years % 10 # 0 \/ months % 10 # 0 THEN None
        ELSE IF year \notin 1..9999 THEN None
        ELSE IF result.date.year \notin 1..9999 THEN None
        ELSE Some(result)

(***************************************************************************)
(* parse_duration                                                          *)
(***************************************************************************)
\* the duplicate error without the pair that caused it
DuplicateKeywordErrorBare(value, keyword) ==
    ReminderParseError("duplicate keyword", <<>>)

\* the duplicate error of a pair: it carries the pair as args[1]
DuplicateKeywordError(value, keyword) ==
    ReminderParseError("duplicate keyword", <<value, keyword>>)

\* the (value, keyword) pairs of the queued duplicate_keyword_errors
RECURSIVE DuplicatePairs(_)
DuplicatePairs(errors) ==
    IF errors = <<>> THEN <<>> ELSE Head(errors).args \o DuplicatePairs(Tail(errors))

\* strict mode (was_quoted): the for loop over the pairs of text_parts from
\* pair i on; the first value or keyword that does not parse raises
RECURSIVE StrictPairs(_, _, _, _)
StrictPairs(text_parts, i, duration_spec, duplicate_keyword_errors) ==
    IF 2 * i > Len(text_parts)
    THEN [error |-> NoError, duration_spec |-> duration_spec,
          duplicate_keyword_errors |-> duplicate_keyword_errors]
    ELSE LET value == text_parts[2 * i - 1]
             keyword == text_parts[2 * i]
             parsed_value == _parse_duration_value(value)
             parsed_keyword == _parse_duration_keyword(keyword)
         IN  IF parsed_value.error # NoError
             THEN [error |-> parsed_value.error, duration_spec |-> duration_spec,
                   duplicate_keyword_errors |-> duplicate_keyword_errors]
             ELSE IF parsed_keyword.error # NoError
             THEN [error |-> parsed_keyword.error, duration_spec |-> duration_spec,
                   duplicate_keyword_errors |-> duplicate_keyword_errors]
             ELSE IF InSpec(Val(parsed_keyword.key), duration_spec)
             THEN StrictPairs(text_parts, i + 1, duration_spec,
                      Append(duplicate_keyword_errors, DuplicateKeywordError(value, keyword)))
             ELSE StrictPairs(text_parts, i + 1,
                      SetItem(duration_spec, Val(parsed_keyword.key), Val(parsed_value.value)),
                      duplicate_keyword_errors)

\* the local variables of parse_duration
DurationStart(text) ==
    [remainder |-> text,
     value_error |-> NoError,
     keyword_error |-> NoError,
     parsed_tokens |-> <<>>,
     duration_spec |-> <<>>,
     duplicate_keyword_errors |-> <<>>,
     message |-> EmptyStr,
     error |-> NoError,
     looping |-> FALSE]

\* the strict branch without the test of the number of tokens
DurationStrictAnyCount(text) ==
    LET pairs == StrictPairs(Split(text), 1, <<>>, <<>>)
    IN  [DurationStart(text) EXCEPT
            !.error = pairs.error,
            !.duration_spec = pairs.duration_spec,
            !.duplicate_keyword_errors = pairs.duplicate_keyword_errors]

\* the strict branch as a whole
DurationStrict(text) ==
    LET text_parts == Split(text)
        pairs == StrictPairs(text_parts, 1, <<>>, <<>>)
    IN  IF Len(text_parts) % 2 = 1
        THEN [DurationStart(text) EXCEPT
                !.error = ReminderParseError("invalid time specification", <<text>>)]
        ELSE [DurationStart(text) EXCEPT
                !.error = pairs.error,
                !.duration_spec = pairs.duration_spec,
                !.duplicate_keyword_errors = pairs.duplicate_keyword_errors]

\* a float is true unless it is zero; None is false
IsTrueValue(value) == ~IsNone(value) /\ Val(value) # 0

\* the error raised when a pair parses after an earlier parse error
PendingError(previous_error, duplicate_keyword_errors) ==
    IF duplicate_keyword_errors # <<>>
    THEN ReminderParseError(previous_error.message,
             previous_error.args \o DuplicatePairs(duplicate_keyword_errors))
    ELSE previous_error

\* the loop if it stopped at every pair of which only one half parses
HalfParsedBreaks(previous_error) == FALSE

\* only one of value and keyword is true: break if an earlier iteration had
\* an error, continue otherwise
HalfParsedContinues(previous_error) == previous_error = NoError

\* heuristic mode: one iteration of the while loop, for a non-empty
\* remainder; looping is whether the loop goes on to test the remainder
DurationIteration(d) ==
    LET pieces == SplitMax2(d.remainder)
        value == pieces[1]
        keyword == IF Len(pieces) >= 2 THEN pieces[2] ELSE EmptyStr
        remainder == IF Len(pieces) = 3 THEN pieces[3] ELSE EmptyStr
        previous_value_error == d.value_error
        previous_keyword_error == d.keyword_error
        previous_error == IF previous_value_error # NoError
                          THEN previous_value_error ELSE previous_keyword_error
        parsed_value == _parse_duration_value(value)
        parsed_keyword == _parse_duration_keyword(keyword)
        value_error == IF parsed_value.error # NoError
                       THEN parsed_value.error ELSE d.value_error
        keyword_error == IF parsed_keyword.error # NoError
                         THEN parsed_keyword.error ELSE d.keyword_error
        duplicate_keyword_errors ==
            IF ~IsNone(parsed_keyword.key) /\ InSpec(Val(parsed_keyword.key), d.duration_spec)
            THEN Append(d.duplicate_keyword_errors, DuplicateKeywordError(value, keyword))
            ELSE d.duplicate_keyword_errors
        tried == [d EXCEPT !.remainder = remainder,
                           !.value_error = value_error,
                           !.keyword_error = keyword_error,
                           !.duplicate_keyword_errors = duplicate_keyword_errors]
    IN  IF pieces = <<>>
        THEN [d EXCEPT !.looping = FALSE]
        ELSE IF IsTrueValue(parsed_value.value) /\ ~IsNone(parsed_keyword.key)
        THEN IF previous_error # NoError
             THEN [tried EXCEPT !.looping = FALSE,
                                !.error = PendingError(previous_error, duplicate_keyword_errors)]
             ELSE [tried EXCEPT !.looping = TRUE,
                                !.parsed_tokens = d.parsed_tokens \o <<value, keyword>>,
                                !.duration_spec = SetItem(d.duration_spec,
                                    Val(parsed_keyword.key), Val(parsed_value.value))]
        ELSE IF IsTrueValue(parsed_value.value) \/ ~IsNone(parsed_keyword.key)
        THEN [tried EXCEPT !.looping = HalfParsedContinues(previous_error)]
        ELSE [tried EXCEPT !.looping = FALSE]

\* the end of parse_duration, after the loops: the queued duplicate errors,
\* no duration at all, or ref_dt + relativedelta(**duration_spec)
DurationResult(d, message, ref_dt) ==
    LET parsed_datetime == AddRelativeDelta(ref_dt, d.duration_spec)
    IN  IF Len(d.duplicate_keyword_errors) > 1
        THEN Raised(ReminderParseError("duplicate keywords",
                        DuplicatePairs(d.duplicate_keyword_errors)))
        ELSE IF Len(d.duplicate_keyword_errors) = 1
        THEN Raised(d.duplicate_keyword_errors[1])
        ELSE IF d.duration_spec = <<>>
        THEN ReturnedNone
        ELSE IF IsNone(parsed_datetime)
        THEN Raised(ValueError("relativedelta"))
        ELSE Returned(Val(parsed_datetime), message)

(***************************************************************************)
(* parse: the stages between the calls, as operators                       *)
(***************************************************************************)
\* stage 0: the tomorrow check on text.strip(): [text_, is_tomorrow]
RECURSIVE TomorrowCheck(_, _)
TomorrowCheck(text_, i) ==
    IF i > Len(TOMORROW_KEYWORDS)
    THEN [text_ |-> text_, is_tomorrow |-> FALSE]
    ELSE IF StartsWith(text_, TOMORROW_KEYWORDS[i])
    THEN [text_ |-> Strip(From(text_, Len(TOMORROW_KEYWORDS[i]))), is_tomorrow |-> TRUE]
    ELSE TomorrowCheck(text_, i + 1)

\* stage 3 if it ran whatever stage 2 found
AfterDayPartAlways(parsed_datetime) == "timestamp"

\* stage 3 runs if stage 2 found no part of day
AfterDayPart(parsed_datetime) ==
    IF IsNone(parsed_datetime) THEN "timestamp" ELSE "final"

\* the parse method of stage 3
ParseMethod(is_tomorrow) == IF is_tomorrow THEN "time" ELSE "datetime"

\* stage 4 if it also ran for a reminder for tomorrow
AfterTimestampAlsoTomorrow(parsed_datetime, is_tomorrow) ==
    IF IsNone(parsed_datetime) THEN "duration" ELSE "final"

\* stage 4 runs if stage 3 found no timestamp and the reminder is not for tomorrow
AfterTimestamp(parsed_datetime, is_tomorrow) ==
    IF IsNone(parsed_datetime) /\ ~is_tomorrow THEN "duration" ELSE "final"

\* the checks after the resolvers: the error they raise, or NoError
FinalCheck(parsed_datetime, quoted_text, remaining_message) ==
    IF IsNone(parsed_datetime)
    THEN ReminderParseError("reminder is unreadable", <<>>)
    ELSE IF quoted_text # <<>> /\ remaining_message # <<>>
    THEN ReminderParseError("unreadable argument", <<remaining_message>>)
    ELSE IF quoted_text = <<>> /\ remaining_message = <<>>
    THEN ReminderParseError("reminder must contain a message", <<>>)
    ELSE NoError

\* stage 5 left out: the datetime as the resolver returned it
TomorrowIncrementNever(parsed_datetime, is_tomorrow, ref_dt) == parsed_datetime

\* stage 5: a reminder for tomorrow is moved to the next day if it is earlier
TomorrowIncrement(parsed_datetime, is_tomorrow, ref_dt) ==
    IF is_tomorrow /\ DateBefore(parsed_datetime.date, AddDays(ref_dt, 1).date)
    THEN AddDays(parsed_datetime, 1)
    ELSE parsed_datetime

\* strftime(REMINDER_DT_FINAL_FORMAT): "%Y-%m-%d %H:%M"
Strftime(dt) ==
    DigitsOf(dt.date.year, 4) \o <<"-">> \o DigitsOf(dt.date.month, 2) \o <<"-">>
    \o DigitsOf(dt.date.day, 2) \o <<" ">>
    \o DigitsOf(dt.time \div 3600, 2) \o <<":">> \o DigitsOf((dt.time % 3600) \div 60, 2)

\* strptime(s, REMINDER_DT_FINAL_FORMAT) of a string that strftime wrote
StrptimeFinal(s) ==
    LET n == Numbers(s) IN DateTime(Date(n[1], n[2], n[3]), Time(n[4], n[5], 0))

\* stage 6 left out: the datetime as the resolver returned it
SanitizeNothing(parsed_datetime) == parsed_datetime

\* stage 6: the seconds and microseconds are truncated
Sanitize(parsed_datetime) == StrptimeFinal(Strftime(parsed_datetime))

\* quoted_text or remaining_message
ReminderMessage(quoted_text, remaining_message) ==
    IF quoted_text # <<>> THEN quoted_text ELSE remaining_message

(***************************************************************************)
(* parse_duration and parse as functions of their arguments: the stages    *)
(* above, composed as the code composes them.                              *)
(***************************************************************************)
\* the while loop of the heuristic mode, run to its end
RECURSIVE DurationLoop(_)
DurationLoop(d) ==
    IF d.error # NoError \/ ~d.looping \/ d.remainder = <<>> THEN d
    ELSE DurationLoop(DurationIteration(d))

parse_duration(text, was_quoted, ref_dt) ==
    LET d == IF was_quoted THEN DurationStrict(text)
             ELSE DurationLoop([DurationStart(text) EXCEPT !.looping = TRUE])
        message == IF was_quoted THEN EmptyStr
                   ELSE _extract_message_after_tokens(text, d.parsed_tokens)
    IN  IF d.error # NoError THEN Raised(d.error)
        ELSE DurationResult(d, message, ref_dt)

\* [error, dt, message]: what parse(text, ref_dt) returns or raises
parse(text, ref_dt) ==
    LET checked == TomorrowCheck(Strip(text), 1)
        is_tomorrow == checked.is_tomorrow
        m == parse_reminder_message(checked.text_)
        day_part == parse_day_part(m.time_spec, is_tomorrow, ref_dt)
        timestamp == parse_timestamp(m.time_spec, ParseMethod(is_tomorrow), ref_dt)
        r == IF AfterDayPart(day_part.dt) = "final" THEN day_part
             ELSE IF HasRaised(timestamp) \/ AfterTimestamp(timestamp.dt, is_tomorrow) = "final"
             THEN timestamp
             ELSE parse_duration(m.time_spec, m.message # <<>>, ref_dt)
        error == IF m.error # NoError THEN m.error
                 ELSE IF HasRaised(r) THEN r.error
                 ELSE FinalCheck(r.dt, m.message, r.text)
    IN  IF error # NoError
        THEN [error |-> error, dt |-> None, message |-> EmptyStr]
        ELSE [error |-> NoError,
              dt |-> Some(Sanitize(TomorrowIncrement(Val(r.dt), is_tomorrow, ref_dt))),
              message |-> ReminderMessage(m.message, r.text)]

(***************************************************************************)
(* The state of one call parse(text, ref_dt).                              *)
(***************************************************************************)
VARIABLES
    text,               \* the argument text
    ref_dt,             \* the argument ref_dt
    pc,                 \* the stage of parse that runs next
    text_,              \* text_ after stage 0
    is_tomorrow,
    time_spec,
    quoted_text,
    parsed_datetime,    \* None or the datetime a resolver returned
    remaining_message,
    invoked,            \* the resolvers called so far, in order
    d,                  \* the local variables of parse_duration
    outcome             \* what parse returned or raised

vars == <<text, ref_dt, pc, text_, is_tomorrow, time_spec, quoted_text,
          parsed_datetime, remaining_message, invoked, d, outcome>>

NoOutcome == [error |-> NoError, dt |-> None, message |-> EmptyStr]

(***************************************************************************)
(* The state of RemindMeCog (bot/remindme/remindme.py): the tables of the  *)
(* database, the scheduler and the invocations of the remindme command.    *)
(***************************************************************************)
VARIABLES
    reminder_jobs,      \* the rows of the table RemindmeJobs
    user_reminders,     \* the rows (job, user) of the table RemindmeUserReminders
    scheduler_jobs,     \* the ids of the reminder jobs of SCHEDULER
    invocations,        \* the invocations of remindme, in the order they began
    uuids               \* the number of uuid4() calls so far

cog_vars == <<reminder_jobs, user_reminders, scheduler_jobs, invocations, uuids>>

\* an empty database, an empty scheduler and no invocation
CogStart ==
    /\ reminder_jobs = {}
    /\ user_reminders = {}
    /\ scheduler_jobs = {}
    /\ invocations = <<>>
    /\ uuids = 0

(***************************************************************************)
(* The texts and reference datetimes parse is called with.                 *)
(***************************************************************************)
RECURSIVE Join(_)
Join(tokens) ==
    IF tokens = <<>> THEN <<>>
    ELSE IF Len(tokens) = 1 THEN tokens[1]
    ELSE tokens[1] \o <<" ">> \o Join(Tail(tokens))

\* the texts of at most n tokens of the pool, joined by single spaces
Texts(pool, n) == {Join(tokens) : tokens \in UNION {[1..k -> pool] : k \in 0..n}}

KeywordTokens ==
    { <<"t", "o", "m", "o", "r", "r", "o", "w">>,
      <<"n", "o", "o", "n">>,
      <<"m", "i", "d", "n", "i", "g", "h", "t">>,
      <<"\"">>,
      <<"\"", "h", "i", "\"">>,
      <<"\"", "\"">>,
      <<"x">>,
      <<"1", "5", ":", "3", "0">>,
      <<"2">>,
      <<"-", "1">>,
      <<"d", "a", "y", "s">> }

TimestampTokens ==
    { <<"2", "0", "2", "4", "-", "0", "3", "-", "0", "1">>,
      <<"2", "0", "2", "4", "-", "0", "3", "-", "0", "5">>,
      <<"2", "0", "2", "4", "-", "0", "2", "-", "2", "8">>,
      <<"2", "0", "2", "4", "-", "1", "3", "-", "0", "1">>,
      <<"0", "9", ":", "0", "0">>,
      <<"1", "0", ":", "0", "0">>,
      <<"1", "5", ":", "3", "0">>,
      <<"2", "5", ":", "0", "0">>,
      <<"x">>,
      <<"\"", "h", "i", "\"">> }

DurationTokens ==
    { <<"0">>,
      <<"2">>,
      <<"d", "a", "y", "s">>,
      <<"h", "o", "u", "r", "s">>,
      <<"m", "s", "g">> }

\* a word longer than any message a reminder can show
LongWord == [i \in 1..LongLen |-> "x"]
LongTexts ==
    { <<"n", "o", "o", "n", " ">> \o LongWord,
      <<"n", "o", "o", "n", " ", "\"">> \o LongWord \o <<"\"">> }

\* keywords in lower and in upper case
CaseTokens ==
    { <<"t", "o", "m", "o", "r", "r", "o", "w">>,
      <<"T", "o", "m", "o", "r", "r", "o", "w">>,
      <<"n", "o", "o", "n">>,
      <<"N", "O", "O", "N">>,
      <<"2">>,
      <<"d", "a", "y", "s">>,
      <<"D", "a", "y", "s">>,
      <<"x">> }

\* (value, keyword) pairs: accepted ones, two spellings of one unit, a
\* fraction, a zero value, a value that is no number, a keyword that is no
\* duration
DurationPairs ==
    { <<"2", " ", "d", "a", "y", "s">>,
      <<"3", " ", "h", "o", "u", "r", "s">>,
      <<"1", ".", "5", " ", "h", "o", "u", "r", "s">>,
      <<"1", " ", "d", "a", "y">>,
      <<"1", " ", "m", "o", "n", "t", "h">>,
      <<"0", " ", "d", "a", "y", "s">>,
      <<"x", " ", "d", "a", "y", "s">>,
      <<"2", " ", "x">> }

\* what follows the pairs: nothing, a message, a quoted message
Messages ==
    { <<>>,
      <<"b", "u", "y", " ", "m", "i", "l", "k">>,
      <<"\"", "h", "i", "\"">> }

\* at most n pairs and a message
Phrases(n) ==
    {Join(SelectSeq(<<pairs, message>>, LAMBDA part : part # <<>>)) :
        pairs \in Texts(DurationPairs, n), message \in Messages}

Ref1 == DateTime(Date(2024, 3, 1), Time(10, 0, 0))
Ref2 == DateTime(Date(2024, 12, 31), Time(18, 0, 30))
\* the last day of a month that is longer than the next one
Ref3 == DateTime(Date(2024, 1, 31), Time(10, 0, 0))

\* a reference time that is the time of a part of day and before 09:00
Ref4 == DateTime(Date(2024, 3, 1), Time(7, 0, 0))

\* dates with and without a year, at, before and after the reference date
DateTokens ==
    { <<"t", "o", "m", "o", "r", "r", "o", "w">>,
      <<"m", "o", "r", "n", "i", "n", "g">>,
      <<"m", "i", "d", "n", "i", "g", "h", "t">>,
      <<"0", "7", ":", "0", "0">>,
      <<"2", "4", ":", "0", "0">>,
      <<"2", "0", "2", "4", "-", "0", "3", "-", "0", "1">>,
      <<"0", "3", "-", "0", "1">>,
      <<"0", "2", "-", "2", "8">>,
      <<"0", "3", "-", "0", "5">>,
      <<"x">> }

\* the tomorrow keyword and a timestamp text behind it
TomorrowTexts ==
    {TOMORROW_KEYWORDS[1] \o <<" ">> \o t : t \in Texts(TimestampTokens, MaxTokens - 1)}

MonthEndTexts ==
    { <<"1", " ", "m", "o", "n", "t", "h", " ", "2", " ", "d", "a", "y", "s", " ", "x">>,
      <<"2", " ", "d", "a", "y", "s", " ", "1", " ", "m", "o", "n", "t", "h", " ", "x">> }

Calls ==
    ((Texts(KeywordTokens, MaxTokens) \cup Texts(TimestampTokens, MaxTokens))
        \X {Ref1, Ref2})
    \cup (Texts(DurationTokens, MaxDurTokens) \X {Ref1})
    \cup (LongTexts \X {Ref1})
    \cup (Texts(CaseTokens, MaxTokens) \X {Ref1})
    \cup (Phrases(MaxPairs) \X {Ref1})
    \cup (MonthEndTexts \X {Ref3})
    \cup (TomorrowTexts \X {Ref1, Ref2})
    \cup (Texts(DateTokens, MaxTokens) \X {Ref4})

Init ==
    /\ \E call \in Calls : text = call[1] /\ ref_dt = call[2]
    /\ pc = "parse"
    /\ text_ = EmptyStr
    /\ is_tomorrow = FALSE
    /\ time_spec = EmptyStr
    /\ quoted_text = EmptyStr
    /\ parsed_datetime = None
    /\ remaining_message = EmptyStr
    /\ invoked = <<>>
    /\ d = DurationStart(EmptyStr)
    /\ outcome = NoOutcome
    /\ CogStart

(***************************************************************************)
(* The actions: the stages of parse.                                       *)
(***************************************************************************)
\* parse raises error
Raise(error) ==
    /\ outcome' = [error |-> error, dt |-> None, message |-> EmptyStr]
    /\ pc' = "done"

\* stage 0: strip the text and the tomorrow keyword
ParseStart ==
    /\ pc = "parse"
    /\ LET checked == TomorrowCheck(Strip(text), 1)
       IN  /\ text_' = checked.text_
           /\ is_tomorrow' = checked.is_tomorrow
    /\ pc' = "message"
    /\ UNCHANGED <<text, ref_dt, time_spec, quoted_text, parsed_datetime,
                   remaining_message, invoked, d, outcome>>
    /\ UNCHANGED cog_vars

\* stage 1: parse_reminder_message
ParseMessage ==
    /\ pc = "message"
    /\ LET r == parse_reminder_message(text_)
       IN  /\ time_spec' = r.time_spec
           /\ quoted_text' = r.message
           /\ IF r.error # NoError
              THEN Raise(r.error)
              ELSE pc' = "day_part" /\ outcome' = outcome
    /\ UNCHANGED <<text, ref_dt, text_, is_tomorrow, parsed_datetime,
                   remaining_message, invoked, d>>
    /\ UNCHANGED cog_vars

\* a resolver returned r or raised: the next stage is next
Resolved(r, next) ==
    /\ parsed_datetime' = r.dt
    /\ remaining_message' = r.text
    /\ IF HasRaised(r)
       THEN Raise(r.error)
       ELSE pc' = next /\ outcome' = outcome

\* stage 2: parse_day_part
ParseDayPart ==
    /\ pc = "day_part"
    /\ invoked' = Append(invoked, "day_part")
    /\ LET r == parse_day_part(time_spec, is_tomorrow, ref_dt)
       IN  Resolved(r, AfterDayPart(r.dt))
    /\ UNCHANGED <<text, ref_dt, text_, is_tomorrow, time_spec, quoted_text, d>>
    /\ UNCHANGED cog_vars

\* stage 3: parse_timestamp
ParseTimestamp ==
    /\ pc = "timestamp"
    /\ invoked' = Append(invoked, "timestamp")
    /\ LET r == parse_timestamp(time_spec, ParseMethod(is_tomorrow), ref_dt)
       IN  Resolved(r, AfterTimestamp(r.dt, is_tomorrow))
    /\ UNCHANGED <<text, ref_dt, text_, is_tomorrow, time_spec, quoted_text, d>>
    /\ UNCHANGED cog_vars

\* stage 4: parse_duration(time_spec, bool(quoted_text)) up to its loop:
\* the strict branch as a whole, or the start of the heuristic loop
ParseDuration ==
    /\ pc = "duration"
    /\ invoked' = Append(invoked, "duration")
    /\ IF quoted_text # <<>>
       THEN LET strict == DurationStrict(time_spec)
            IN  /\ d' = strict
                /\ IF strict.error # NoError
                   THEN Raise(strict.error)
                   ELSE pc' = "duration_end" /\ outcome' = outcome
       ELSE /\ d' = [DurationStart(time_spec) EXCEPT !.looping = TRUE]
            /\ pc' = IF time_spec # <<>> THEN "duration_loop" ELSE "duration_end"
            /\ outcome' = outcome
    /\ UNCHANGED <<text, ref_dt, text_, is_tomorrow, time_spec, quoted_text,
                   parsed_datetime, remaining_message>>
    /\ UNCHANGED cog_vars

\* one iteration of the heuristic loop of parse_duration
ParseDurationLoop ==
    /\ pc = "duration_loop"
    /\ LET next == DurationIteration(d)
       IN  /\ d' = next
           /\ IF next.error # NoError
              THEN Raise(next.error)
              ELSE /\ pc' = IF next.looping /\ next.remainder # <<>>
                            THEN "duration_loop" ELSE "duration_end"
                   /\ outcome' = outcome
    /\ UNCHANGED <<text, ref_dt, text_, is_tomorrow, time_spec, quoted_text,
                   parsed_datetime, remaining_message, invoked>>
    /\ UNCHANGED cog_vars

\* the end of parse_duration: the message and the datetime
ParseDurationEnd ==
    /\ pc = "duration_end"
    /\ LET message == IF quoted_text # <<>> THEN EmptyStr
                      ELSE _extract_message_after_tokens(time_spec, d.parsed_tokens)
       IN  /\ d' = [d EXCEPT !.message = message, !.looping = FALSE]
           /\ Resolved(DurationResult(d, message, ref_dt), "final")
    /\ UNCHANGED <<text, ref_dt, text_, is_tomorrow, time_spec, quoted_text, invoked>>
    /\ UNCHANGED cog_vars

\* the final checks and stages 5 and 6: parse returns or raises
ParseFinal ==
    /\ pc = "final"
    /\ LET error == FinalCheck(parsed_datetime, quoted_text, remaining_message)
       IN  IF error # NoError
           THEN Raise(error)
           ELSE /\ outcome' =
                     [error |-> NoError,
                      dt |-> Some(Sanitize(
                                TomorrowIncrement(Val(parsed_datetime), is_tomorrow, ref_dt))),
                      message |-> ReminderMessage(quoted_text, remaining_message)]
                /\ pc' = "done"
    /\ UNCHANGED <<text, ref_dt, text_, is_tomorrow, time_spec, quoted_text,
                   parsed_datetime, remaining_message, invoked, d>>
    /\ UNCHANGED cog_vars

Next ==
    \/ ParseStart
    \/ ParseMessage
    \/ ParseDayPart
    \/ ParseTimestamp
    \/ ParseDuration
    \/ ParseDurationLoop
    \/ ParseDurationEnd
    \/ ParseFinal

Spec == Init /\ [][Next]_vars

(***************************************************************************)
(* RemindMeCog.remindme.  An invocation is a coroutine: between two of its *)
(* awaits it runs alone, at an await the other invocations may run.  Its   *)
(* steps are the code up to the await of parse_reminder, the call of parse *)
(* in an executor, from its return to the await of ctx.reply, and the rest *)
(* of remindme.                                                            *)
(***************************************************************************)
MaxInvocations == 3

\* the authors: a guild member without roles and one with the moderator role
Members ==
    { [id |-> 1, roles |-> {}],
      [id |-> 2, roles |-> {"moderator"}] }

has_mod_role(member) == "moderator" \in member.roles

\* the number the limit check compares the job count of the author with
REMINDER_USER_CREATE_LIMIT == 1

\* the rows of RemindmeJobs whose author is user_id, counted
get_reminder_job_count_for_author(user_id) ==
    Cardinality({job \in reminder_jobs : job.author_id = user_id})

\* the table RemindmeJobs with one more row
add_reminder_job(job_id, timestamp, message, author_id) ==
    reminder_jobs \cup {[job_id |-> job_id, timestamp |-> timestamp,
                         message |-> message, author_id |-> author_id]}

\* the table RemindmeJobs without the rows of job_id
remove_reminder_job(jobs, job_id) == {job \in jobs : job.job_id # job_id}

\* no argument, reminders with a message, a reminder without one
ReminderSpecs ==
    { None,
      Some(<<"n", "o", "o", "n", " ", "x">>),
      Some(<<"2", " ", "h", "o", "u", "r", "s", " ", "x">>),
      Some(<<"n", "o", "o", "n">>) }

\* datetime.now() of the calls of parse
Now == Ref1

\* the steps of the try block that may raise
CreationFailures == {"none", "add_reminder_job", "add_reminder_for_user", "add_job"}

CogInit ==
    /\ CogStart
    /\ text = EmptyStr
    /\ ref_dt = Now
    /\ pc = "done"
    /\ text_ = EmptyStr
    /\ is_tomorrow = FALSE
    /\ time_spec = EmptyStr
    /\ quoted_text = EmptyStr
    /\ parsed_datetime = None
    /\ remaining_message = EmptyStr
    /\ invoked = <<>>
    /\ d = DurationStart(EmptyStr)
    /\ outcome = NoOutcome

\* remindme begins: no argument, the limit check, the call of parse_reminder
RemindMe ==
    /\ Len(invocations) < MaxInvocations
    /\ \E author \in Members, reminder_spec \in ReminderSpecs :
         LET ctx == [author |-> author, reminder_spec |-> reminder_spec,
                     pc |-> "parse_reminder", sent |-> "", result |-> NoOutcome]
         IN  invocations' = Append(invocations,
                 IF IsNone(reminder_spec)
                 THEN [ctx EXCEPT !.pc = "done", !.sent = "help"]
                 ELSE IF /\ ~has_mod_role(author)
                         /\ get_reminder_job_count_for_author(author.id)
                                > REMINDER_USER_CREATE_LIMIT
                 THEN [ctx EXCEPT !.pc = "done", !.sent = "limit"]
                 ELSE ctx)
    /\ UNCHANGED <<reminder_jobs, user_reminders, scheduler_jobs, uuids>>
    /\ UNCHANGED vars

\* parse_reminder: parser.parse(reminder_spec) begins in an executor, which
\* the stages of parse above then run
ParseReminder ==
    /\ \A i \in 1..Len(invocations) : invocations[i].pc # "run_in_executor"
    /\ \E i \in 1..Len(invocations) :
         /\ invocations[i].pc = "parse_reminder"
         /\ invocations' = [invocations EXCEPT ![i].pc = "run_in_executor"]
         /\ text' = Val(invocations[i].reminder_spec)
    /\ ref_dt' = Now
    /\ pc' = "parse"
    /\ text_' = EmptyStr
    /\ is_tomorrow' = FALSE
    /\ time_spec' = EmptyStr
    /\ quoted_text' = EmptyStr
    /\ parsed_datetime' = None
    /\ remaining_message' = EmptyStr
    /\ invoked' = <<>>
    /\ d' = DurationStart(EmptyStr)
    /\ outcome' = NoOutcome
    /\ UNCHANGED <<reminder_jobs, user_reminders, scheduler_jobs, uuids>>

\* parse_reminder returned or raised: the message check and ctx.reply
ParseReminderDone ==
    /\ pc = "done"
    /\ \E i \in 1..Len(invocations) :
         /\ invocations[i].pc = "run_in_executor"
         /\ LET ctx == [invocations[i] EXCEPT !.result = outcome]
            IN  invocations' = [invocations EXCEPT ![i] =
                    IF outcome.error # NoError
                    THEN [ctx EXCEPT !.pc = "done",
                                     !.sent = IF outcome.error.type = "ReminderParseError"
                                              THEN "parse_error" ELSE ""]
                    ELSE IF outcome.message = <<>>
                    THEN [ctx EXCEPT !.pc = "done", !.sent = "no_message"]
                    ELSE [ctx EXCEPT !.pc = "add_reminder_job", !.sent = "reminder"]]
    /\ UNCHANGED <<reminder_jobs, user_reminders, scheduler_jobs, uuids>>
    /\ UNCHANGED vars

\* ctx.reply returned: the job is stored and scheduled, or a step of the
\* try block raises and handle_reminder_creation_error removes the job
AddReminder ==
    /\ \E i \in 1..Len(invocations), failure \in CreationFailures :
         /\ invocations[i].pc = "add_reminder_job"
         /\ LET ctx == invocations[i]
                reminder_uuid == uuids + 1
                added == add_reminder_job(reminder_uuid, Val(ctx.result.dt),
                                          ctx.result.message, ctx.author.id)
            IN  /\ uuids' = reminder_uuid
                /\ reminder_jobs' =
                       IF failure = "none" THEN added
                       ELSE IF failure = "add_reminder_job"
                       THEN remove_reminder_job(reminder_jobs, reminder_uuid)
                       ELSE remove_reminder_job(added, reminder_uuid)
                /\ user_reminders' =
                       IF failure \in {"none", "add_job"}
                       THEN user_reminders \cup {<<reminder_uuid, ctx.author.id>>}
                       ELSE user_reminders
                /\ scheduler_jobs' =
                       IF failure = "none"
                       THEN scheduler_jobs \cup {reminder_uuid}
                       ELSE scheduler_jobs
                /\ invocations' = [invocations EXCEPT ![i] =
                       [ctx EXCEPT !.pc = "done",
                                   !.sent = IF failure = "none" THEN "reminder"
                                            ELSE "creation_error"]]
    /\ UNCHANGED vars

CogNext ==
    \/ RemindMe
    \/ ParseReminder
    \/ ParseStart
    \/ ParseMessage
    \/ ParseDayPart
    \/ ParseTimestamp
    \/ ParseDuration
    \/ ParseDurationLoop
    \/ ParseDurationEnd
    \/ ParseFinal
    \/ ParseReminderDone
    \/ AddReminder

CogSpec == CogInit /\ [][CogNext]_<<vars, cog_vars>>

(***************************************************************************)
(* Properties of parse.                                                    *)
(***************************************************************************)
Done == pc = "done"
\* parse returned (outcome.dt, outcome.message)
Succeeded == Done /\ outcome.error = NoError
\* parse raised a ReminderParseError with the message
Failed(message) ==
    Done /\ outcome.error.type = "ReminderParseError" /\ outcome.error.message = message
\* the resolver that was called last
LastInvoked == invoked[Len(invoked)]
\* the number of quotation marks of the input
QuoteCount == Count(text, quote_character)

\* C1: parse returns a (datetime, message) pair or raises ReminderParseError:
\* it never returns None and no other exception escapes, whatever the text.
C1_OnlyReminderParseError ==
    Done =>
        \/ outcome.error = NoError /\ ~IsNone(outcome.dt)
        \/ outcome.error.type = "ReminderParseError"

\* does the text start with a part-of-day keyword
StartsWithDayPart(s) ==
    \E i \in 1..Len(PART_OF_DAY_KEYWORDS) :
        \E k \in 1..Len(PART_OF_DAY_KEYWORDS[i].keywords) :
            StartsWith(Lower(s), PART_OF_DAY_KEYWORDS[i].keywords[k])

ResolverOrder == <<"day_part", "timestamp", "duration">>

\* C2: the resolvers are called in the order part of day, timestamp,
\* duration; a resolver is called only if every earlier one returned None
\* without raising, so that a resolver that returns a datetime or raises is
\* the last one called; the datetime parse returns is the one the last
\* resolver returned; and an input that starts with a part-of-day keyword
\* is resolved by the part-of-day resolver whenever parse succeeds.
C2_ResolverPriority ==
    LET day_part == parse_day_part(time_spec, is_tomorrow, ref_dt)
        timestamp == parse_timestamp(time_spec, ParseMethod(is_tomorrow), ref_dt)
    IN  /\ invoked = SubSeq(ResolverOrder, 1, Len(invoked))
        /\ Len(invoked) >= 2 => day_part = ReturnedNone
        /\ Len(invoked) >= 3 => timestamp = ReturnedNone
        /\ (Len(invoked) = 2 /\ HasRaised(timestamp)) =>
                Done /\ outcome.error = timestamp.error
        /\ Succeeded =>
                /\ invoked # <<>>
                /\ ~IsNone(parsed_datetime)
                /\ LastInvoked = "day_part" => parsed_datetime = day_part.dt
                /\ LastInvoked = "timestamp" => parsed_datetime = timestamp.dt
                /\ outcome.dt = Some(Sanitize(
                        TomorrowIncrement(Val(parsed_datetime), is_tomorrow, ref_dt)))
        /\ (Succeeded /\ StartsWithDayPart(Strip(text))) => invoked = <<"day_part">>

\* C2 witness: a successful parse of a text that starts with a part-of-day
\* keyword and goes on with a duration phrase
C2_Witness ==
    /\ Succeeded
    /\ text = <<"n", "o", "o", "n", " ", "2", " ", "d", "a", "y", "s">>
    /\ invoked = <<"day_part">>

\* the input starts with a tomorrow keyword and neither the part-of-day
\* resolver nor the timestamp resolver matches the rest
TomorrowUnmatched ==
    /\ Done
    /\ is_tomorrow
    /\ Len(invoked) >= 2
    /\ parse_day_part(time_spec, is_tomorrow, ref_dt) = ReturnedNone
    /\ parse_timestamp(time_spec, ParseMethod(is_tomorrow), ref_dt) = ReturnedNone

QuotePositions(s) == {i \in 1..Len(s) : s[i] = quote_character}
FirstQuote(s) == CHOOSE i \in QuotePositions(s) : \A j \in QuotePositions(s) : i <= j
LastQuote(s) == CHOOSE i \in QuotePositions(s) : \A j \in QuotePositions(s) : j <= i
IsBlank(s) == \A i \in 1..Len(s) : s[i] \in Whitespace
\* t is s without the whitespace at its two ends
IsTrimmed(t, s) ==
    /\ t = <<>> \/ (t[1] \notin Whitespace /\ t[Len(t)] \notin Whitespace)
    /\ \E a, b \in 0..Len(s) :
            /\ a + Len(t) + b = Len(s)
            /\ IsBlank(Upto(s, a))
            /\ t = SubSeq(s, a + 1, a + Len(t))
            /\ IsBlank(From(s, a + Len(t)))

C6_QuotedLeftoverFails ==
    (Done /\ QuoteCount >= 2 /\ ~IsNone(parsed_datetime) /\ remaining_message # <<>>) =>
        Failed("unreadable argument")

\* s is a date literal, a time literal of the pattern tables
IsDateLiteral(s) ==
    \E i \in 1..Len(REGEXES_DATE) : Match(REGEXES_DATE[i].regex, s) = Len(s)
IsTimeLiteral(s) ==
    \E i \in 1..Len(REGEXES_TIME) : Match(REGEXES_TIME[i].regex, s) = Len(s)
\* s is what the timestamp resolver consumes: a date, a time, or both
IsTimestampLiterals(s) ==
    \/ IsDateLiteral(s)
    \/ IsTimeLiteral(s)
    \/ \E k \in 1..Len(s) :
            \/ IsDateLiteral(Upto(s, k)) /\ IsTimeLiteral(LStrip(From(s, k)))
            \/ IsTimeLiteral(Upto(s, k)) /\ IsDateLiteral(LStrip(From(s, k)))
\* s is what the part-of-day resolver consumes: a keyword
IsDayPartKeyword(s) ==
    \E i \in 1..Len(PART_OF_DAY_KEYWORDS) :
        \E k \in 1..Len(PART_OF_DAY_KEYWORDS[i].keywords) :
            Lower(s) = PART_OF_DAY_KEYWORDS[i].keywords[k]

\* C7: the message of a successful parse of an input without quotation
\* marks is the trimmed text behind the tokens that the winning resolver
\* consumed: the keyword, the date and time literals, or the accepted
\* (value, keyword) pairs.
C7_UnquotedMessageIsLeftover ==
    (Succeeded /\ QuoteCount = 0) =>
        \E n \in 0..Len(time_spec) :
            /\ outcome.message = Strip(From(time_spec, n))
            /\ CASE LastInvoked = "day_part" -> IsDayPartKeyword(Upto(time_spec, n))
                 [] LastInvoked = "timestamp" -> IsTimestampLiterals(Upto(time_spec, n))
                 [] LastInvoked = "duration" ->
                        /\ Split(Upto(time_spec, n)) = d.parsed_tokens
                        /\ n = Len(time_spec) \/ time_spec[n + 1] \in Whitespace

\* C8: the message of a successful parse has at most 1750 characters.
C8_MessageLengthBound ==
    Succeeded => Len(outcome.message) <= 1750

\* a clock time HH:MM, and its time of day
IsClock(s) ==
    /\ Len(s) = 5
    /\ s[3] = ":"
    /\ \A i \in {1, 2, 4, 5} : s[i] \in Digits
ClockTime(s) ==
    Time(DigitValue[s[1]] * 10 + DigitValue[s[2]],
         DigitValue[s[4]] * 10 + DigitValue[s[5]], 0)
\* the reference date as YYYY-MM-DD
RefDateLiteral == Upto(Strftime(ref_dt), 10)
IsAmPm(s) == Len(s) >= 2 /\ Lower(Upto(s, 2)) \in {<<"a", "m">>, <<"p", "m">>}
\* the input names the reference date, as YYYY-MM-DD, and a clock time
\* HH:MM that is not after the reference time, in either order
NamesRefDateAndPastTime ==
    LET tokens == Split(text)
    IN  /\ StartsWith(LStrip(text), RefDateLiteral) \/ IsClock(Upto(LStrip(text), 5))
        /\ Len(tokens) >= 2
        /\ \E i \in 1..2 :
                /\ tokens[i] = RefDateLiteral
                /\ IsClock(tokens[3 - i])
                /\ ClockTime(tokens[3 - i]) < 24 * 3600
                /\ ClockTime(tokens[3 - i]) <= ref_dt.time
        /\ Len(tokens) >= 3 => ~IsAmPm(tokens[3])

\* C9: a successful parse that the part-of-day resolver or the timestamp
\* resolver won returns a datetime that is not before the reference
\* datetime; and an input that names the reference date with a clock time
\* that is not after the reference time fails with ReminderParseError.
C9_NoPastResult ==
    /\ (Succeeded /\ LastInvoked \in {"day_part", "timestamp"}) =>
            ~Before(Val(outcome.dt), ref_dt)
    /\ (Done /\ NamesRefDateAndPastTime) => outcome.error.type = "ReminderParseError"

\* C9 witness: the reference date with a clock time equal to the reference
\* time has been parsed
C9_Witness ==
    /\ Done
    /\ NamesRefDateAndPastTime
    /\ \E i \in 1..2 : IsClock(Split(text)[i]) /\ ClockTime(Split(text)[i]) = ref_dt.time

\* C10: a successful parse returns a datetime that is not before the
\* reference datetime, whichever resolver won.
C10_NeverInThePast ==
    Succeeded => ~Before(Val(outcome.dt), ref_dt)

\* the whitespace-separated tokens of the time specification
SpecTokens == Split(time_spec)
\* s is a number for float(), a number other than zero
IsNumber(s) == ~IsNone(Float(s))
IsNonZero(s) == IsNumber(s) /\ Val(Float(s)) # 0
\* the logical unit of a keyword, None if it is no unit
UnitOf(s) == DurationKey(Lower(s), 1)
IsUnit(s) == ~IsNone(UnitOf(s))
\* the duration resolver has run and parse has ended
DurationDone == Done /\ Len(invoked) = 3
\* the tokens that follow position n are message words: no numbers, no units
OnlyWordsBehind(n) ==
    \A i \in (n + 1)..Len(SpecTokens) : ~IsNumber(SpecTokens[i]) /\ ~IsUnit(SpecTokens[i])
\* the time specification gives one unit twice: two (value, unit) pairs of
\* the same unit, the first value not zero, followed by nothing (strict
\* mode) or by at most two message words (heuristic mode)
OneUnitTwice ==
    /\ DurationDone
    /\ Len(SpecTokens) >= 4
    /\ Len(SpecTokens) <= IF quoted_text # <<>> THEN 4 ELSE 6
    /\ IsNonZero(SpecTokens[1]) /\ IsUnit(SpecTokens[2])
    /\ IsNumber(SpecTokens[3]) /\ UnitOf(SpecTokens[4]) = UnitOf(SpecTokens[2])
    /\ OnlyWordsBehind(4)
\* the pair (value, keyword) is among the pairs that the error references
References(error, value, keyword) ==
    \E i \in 1..Len(error.args) :
        i % 2 = 1 /\ i < Len(error.args)
        /\ error.args[i] = value /\ error.args[i + 1] = keyword

TwoPairsOfOneUnit ==
    /\ DurationDone
    /\ Len(SpecTokens) >= 4
    /\ IsNumber(SpecTokens[1]) /\ IsUnit(SpecTokens[2])
    /\ IsNumber(SpecTokens[3]) /\ UnitOf(SpecTokens[4]) = UnitOf(SpecTokens[2])

\* C12: two (value, unit) pairs of the same logical unit make the parse fail
\* with a ReminderParseError, in strict and in heuristic mode.
C12_UnitKeysUnique ==
    TwoPairsOfOneUnit => outcome.error.type = "ReminderParseError"

\* a resolver returned a datetime and the input holds no message text,
\* quoted or left over
ResolvedWithoutMessage ==
    /\ Done
    /\ ~IsNone(parsed_datetime)
    /\ quoted_text = <<>>
    /\ remaining_message = <<>>

\* C13: an input that resolves to a datetime and has no message text
\* succeeds, with the empty string as the message.
C13_EmptyMessageReturned ==
    ResolvedWithoutMessage => Succeeded /\ outcome.message = EmptyStr

\* C14: the datetime of a successful parse has no seconds: it is a whole
\* minute, whichever resolver won and whatever the reference datetime.
C14_WholeMinutes ==
    Succeeded => Val(outcome.dt).time % 60 = 0

\* C14 witness: a successful parse whose resolver returned a datetime with
\* seconds, taken from the reference datetime
C14_Witness ==
    /\ Succeeded
    /\ ref_dt.time % 60 # 0
    /\ Val(parsed_datetime).time % 60 # 0

\* the datetime as "YYYY-MM-DD HH:MM", followed by a message
Rendered(dt) == Strftime(dt) \o <<" ", "x">>

\* C15: the datetime of a successful parse, written as "YYYY-MM-DD HH:MM"
\* in front of a message and parsed against the same reference datetime,
\* gives the same datetime again.
C15_IdempotentNormalization ==
    Succeeded =>
        LET again == parse(Rendered(Val(outcome.dt)), ref_dt)
        IN  again.error = NoError /\ again.dt = outcome.dt

\* the time specification is k (value, unit) pairs of pairwise distinct
\* units, followed by a message of words that are no numbers and no units
DistinctPairsAndMessage(k) ==
    /\ DurationDone
    /\ QuoteCount = 0
    /\ Len(SpecTokens) > 2 * k
    /\ \A i \in 1..k : IsNumber(SpecTokens[2 * i - 1]) /\ IsUnit(SpecTokens[2 * i])
    /\ \A i, j \in 1..k : i # j => UnitOf(SpecTokens[2 * i]) # UnitOf(SpecTokens[2 * j])
    /\ OnlyWordsBehind(2 * k)
\* the offsets that the first k pairs write, in the order they are written
WrittenOffsets(k) ==
    [i \in 1..k |-> [key |-> Val(UnitOf(SpecTokens[2 * i])),
                     value |-> Val(Float(SpecTokens[2 * i - 1]))]]
\* the tokens with the pairs i and i + 1 exchanged
SwapPairs(tokens, i) ==
    [j \in 1..Len(tokens) |->
        IF j \in {2 * i - 1, 2 * i} THEN tokens[j + 2]
        ELSE IF j \in {2 * i + 1, 2 * i + 2} THEN tokens[j - 2]
        ELSE tokens[j]]
TwoDaysThreeHours ==
    <<"2", " ", "d", "a", "y", "s", " ", "3", " ", "h", "o", "u", "r", "s", " ",
      "b", "u", "y", " ", "m", "i", "l", "k">>
ThreeHoursTwoDays ==
    <<"3", " ", "h", "o", "u", "r", "s", " ", "2", " ", "d", "a", "y", "s", " ",
      "b", "u", "y", " ", "m", "i", "l", "k">>

\* C16: for an unquoted input of (value, unit) pairs of distinct units and
\* a message, a successful parse returns the reference datetime plus the
\* offsets written, months and years by the calendar, truncated to the
\* minute; the parse succeeds if no value is zero; the datetime is the same
\* with two neighbouring pairs exchanged; and "2 days 3 hours buy milk" and
\* "3 hours 2 days buy milk" at 2024-03-01 10:00 both give 2024-03-03 13:00
\* with the message "buy milk".
C16_DurationArithmetic ==
    /\ \A k \in 1..(Len(time_spec) \div 2) :
            DistinctPairsAndMessage(k) =>
                /\ Succeeded =>
                        outcome.dt = Some(Sanitize(Val(
                            AddRelativeDelta(ref_dt, WrittenOffsets(k)))))
                /\ (\A i \in 1..k : IsNonZero(SpecTokens[2 * i - 1])) => Succeeded
                /\ Succeeded =>
                        \A i \in 1..(k - 1) :
                            parse(Join(SwapPairs(SpecTokens, i)), ref_dt).dt = outcome.dt
    /\ (Done /\ text \in {TwoDaysThreeHours, ThreeHoursTwoDays} /\ ref_dt = Ref1) =>
            /\ Succeeded
            /\ outcome.dt = Some(DateTime(Date(2024, 3, 3), Time(13, 0, 0)))
            /\ outcome.message = <<"b", "u", "y", " ", "m", "i", "l", "k">>

\* C17: the input with its keywords in lower case parses as the input
\* itself does: both succeed or both fail, with the same datetime and, up
\* to the case of its letters, the same message.
C17_CaseInsensitiveKeywords ==
    Done =>
        LET lower == parse(Lower(text), ref_dt)
        IN  /\ lower.error = NoError <=> outcome.error = NoError
            /\ lower.dt = outcome.dt
            /\ Lower(lower.message) = Lower(outcome.message)

\* the heuristic loop is about to examine a pair: its value and keyword
AtPair == pc = "duration_loop" /\ LStrip(d.remainder) # <<>>
CurrentValue == SplitMax2(d.remainder)[1]
CurrentKeyword ==
    IF Len(SplitMax2(d.remainder)) >= 2 THEN SplitMax2(d.remainder)[2] ELSE EmptyStr
\* the parse error of an earlier pair that is still pending, or NoError
PendingParseError ==
    IF d.value_error # NoError THEN d.value_error ELSE d.keyword_error

\* C18: when the loop examines a pair whose value is a number and whose
\* keyword is a unit while a parse error of an earlier pair is pending,
\* parse_duration raises a ReminderParseError with the message of that
\* error, and the pair is not added to the duration specifier.
C18_ParsedPairAfterPendingError ==
    [][(/\ AtPair
        /\ IsNumber(CurrentValue) /\ IsUnit(CurrentKeyword)
        /\ PendingParseError # NoError)
       => /\ pc' = "done"
          /\ outcome'.error.type = "ReminderParseError"
          /\ outcome'.error.message = PendingParseError.message
          /\ d'.duration_spec = d.duration_spec]_vars

\* exactly one of the value and the keyword of the pair parses
HalfParsed == IsNumber(CurrentValue) # IsUnit(CurrentKeyword)
\* exactly one of the two is true for the code: a value of zero is not
HalfTrue == IsNonZero(CurrentValue) # IsUnit(CurrentKeyword)

Unparseable == ~IsNumber(CurrentValue) /\ ~IsUnit(CurrentKeyword)
\* message is the text of the time specification behind the pair that was
\* accepted last
IsTextBehindLastPair(message, parsed_tokens) ==
    \E n \in 0..Len(time_spec) :
        /\ Strip(From(time_spec, n)) = message
        /\ n = Len(time_spec) \/ time_spec[n + 1] \in Whitespace
        /\ LET before == Split(Upto(time_spec, n))
           IN  /\ Len(before) >= 2
               /\ SubSeq(before, Len(before) - 1, Len(before))
                    = SubSeq(parsed_tokens, Len(parsed_tokens) - 1, Len(parsed_tokens))

\* C20: at a pair of which neither half parses the loop stops without
\* raising, also when a parse error is pending; the pairs accepted so far
\* give the datetime and the text behind the last of them is the message.
C20_UnparseablePairStopsLoop ==
    [][(AtPair /\ Unparseable)
       => LET message == _extract_message_after_tokens(time_spec, d'.parsed_tokens)
              result == DurationResult(d', message, ref_dt)
          IN  /\ pc' = "duration_end"
              /\ outcome' = outcome
              /\ d'.duration_spec = d.duration_spec
              /\ d'.duration_spec # <<>> =>
                    /\ result.error = NoError
                    /\ result.dt = AddRelativeDelta(ref_dt, d.duration_spec)
                    /\ IsTextBehindLastPair(result.text, d.parsed_tokens)]_vars

\* the duration resolver ran in strict mode: a quoted message was extracted
StrictReached == DurationDone /\ quoted_text # <<>>
\* pair i of the time specification has a value that is no number or a
\* keyword that is no unit
BadPair(i) == ~IsNumber(SpecTokens[2 * i - 1]) \/ ~IsUnit(SpecTokens[2 * i])
BadPairs == {i \in 1..(Len(SpecTokens) \div 2) : BadPair(i)}
FirstBadPair == CHOOSE i \in BadPairs : \A j \in BadPairs : i <= j

\* C21: in strict mode an odd number of tokens fails with the "invalid time
\* specification" ReminderParseError; an even number with a pair whose value
\* is no number or whose keyword is no unit fails with the
\* ReminderParseError of the first such pair; and no token of the time
\* specification becomes message text: parse_duration returns the empty
\* message and a successful parse returns the quoted message.
C21_StrictModeRejects ==
    StrictReached =>
        /\ d.parsed_tokens = <<>>
        /\ d.message = EmptyStr
        /\ remaining_message = EmptyStr
        /\ Succeeded => outcome.message = quoted_text
        /\ Len(SpecTokens) % 2 = 1 =>
                /\ Failed("invalid time specification")
                /\ d.duration_spec = <<>>
        /\ (Len(SpecTokens) % 2 = 0 /\ BadPairs # {}) =>
                LET value == SpecTokens[2 * FirstBadPair - 1]
                    keyword == SpecTokens[2 * FirstBadPair]
                IN  IF ~IsNumber(value)
                    THEN Failed("value is not a number") /\ outcome.error.args = <<value>>
                    ELSE Failed("keyword is no duration") /\ outcome.error.args = <<keyword>>

\* C21 witness: strict mode met a pair that does not parse after one that does
C21_Witness ==
    /\ StrictReached
    /\ Len(SpecTokens) = 4
    /\ ~BadPair(1)
    /\ BadPair(2)

\* the time specification of an input for tomorrow starts with a date
\* literal, or with a time literal and a date literal
TomorrowWithDate ==
    /\ Done
    /\ is_tomorrow
    /\ Len(SpecTokens) >= 1
    /\ \/ IsDateLiteral(SpecTokens[1])
       \/ /\ Len(SpecTokens) >= 2
          /\ IsTimeLiteral(SpecTokens[1])
          /\ IsDateLiteral(SpecTokens[2])

\* C22: an input for tomorrow whose time specification starts with a date
\* literal, or with a time literal followed by a date literal, fails with the
\* "date given, time only expected" ReminderParseError of the timestamp
\* resolver: the date is not skipped, not used and not taken as message text.
C22_TomorrowRejectsDate ==
    TomorrowWithDate =>
        /\ Failed("date given, time only expected")
        /\ invoked = <<"day_part", "timestamp">>

\* the date that a date literal denotes: the first pattern that matches it,
\* the reference year for a literal without a year; None if it is no date
LiteralDate(s) ==
    LET match == FirstMatch(REGEXES_DATE, 1, s)
        normalized == _normalize_date_str(Val(match).str, Val(match).format, ref_dt)
    IN  IF IsNone(match) THEN None ELSE StrptimeDate(normalized.str, normalized.format)
\* s starts with a time literal
StartsWithTimeLiteral(s) == \E k \in 1..8 : k <= Len(s) /\ IsTimeLiteral(Upto(s, k))
\* the text of the time specification behind its first token
BehindFirstToken == LStrip(From(LStrip(time_spec), Len(SpecTokens[1])))
\* the timestamp resolver has run in date-and-time mode on a time
\* specification that starts with a date literal and goes on without a time
DateWithoutTime ==
    /\ Len(invoked) >= 2
    /\ ~is_tomorrow
    /\ Len(SpecTokens) >= 1
    /\ IsDateLiteral(SpecTokens[1])
    /\ ~StartsWithTimeLiteral(BehindFirstToken)

\* C23: a date literal without a time resolves to 09:00 on that date, the
\* text behind it left over, if and only if the date is after the reference
\* date; a date equal to the reference date fails with the "date without
\* time must be in the future" ReminderParseError, whatever the reference
\* time, and does not reach the duration resolver.
C23_DateWithoutTime ==
    DateWithoutTime =>
        LET date == LiteralDate(SpecTokens[1])
        IN  IF IsNone(date) THEN IsNone(parsed_datetime)
            ELSE /\ DateBefore(ref_dt.date, Val(date)) <=>
                        /\ parsed_datetime = Some(DateTime(Val(date), Time(9, 0, 0)))
                        /\ remaining_message = Strip(BehindFirstToken)
                        /\ outcome.error.type \in {"", "ReminderParseError"}
                 /\ Val(date) = ref_dt.date =>
                        /\ Failed("date without time must be in the future")
                        /\ invoked = <<"day_part", "timestamp">>

\* C23 witness: the reference date, without a year and without a time, was
\* given before 09:00 of the reference date
C23_Witness ==
    /\ DateWithoutTime
    /\ Done
    /\ LiteralDate(SpecTokens[1]) = Some(ref_dt.date)
    /\ Len(SpecTokens[1]) < 10
    /\ ref_dt.time < Time(9, 0, 0)

\* the date literal of the time specification, in date-and-time mode: its
\* first token, or its second token behind a time literal
DateToken ==
    IF IsDateLiteral(SpecTokens[1]) THEN SpecTokens[1] ELSE SpecTokens[2]
HasDateToken ==
    /\ Len(SpecTokens) >= 1
    /\ \/ IsDateLiteral(SpecTokens[1])
       \/ /\ Len(SpecTokens) >= 2
          /\ IsTimeLiteral(SpecTokens[1])
          /\ IsDateLiteral(SpecTokens[2])
\* parse has ended on an input, not for tomorrow, whose date literal denotes
\* a date before the reference date
PastDate ==
    /\ Done
    /\ ~is_tomorrow
    /\ HasDateToken
    /\ ~IsNone(LiteralDate(DateToken))
    /\ DateBefore(Val(LiteralDate(DateToken)), ref_dt.date)

\* C24: a date literal before the reference date, in front of or behind the
\* time literal, fails with the "date is in the past" ReminderParseError; a
\* date literal without a year is a date of the reference year, so that a
\* month and day earlier in the year fail in the same way.
C24_PastDateFails ==
    PastDate => Failed("date is in the past")

\* the date n days after the reference date
RefDatePlus(n) == FromOrdinal(ToOrdinal(ref_dt.date) + n)
\* the days that a part of day at hour o'clock lies ahead of the reference date
DaysAhead(hour) ==
    IF is_tomorrow /\ hour = 0 THEN 2
    ELSE IF is_tomorrow \/ Time(hour, 0, 0) <= ref_dt.time THEN 1
    ELSE 0

\* C25: once the part-of-day resolver has run on a time specification that
\* starts with a part-of-day keyword, in any case of its letters, no other
\* resolver runs; the datetime is the time of the keyword on the reference
\* date plus two days for midnight tomorrow, plus one day for tomorrow or
\* for a time that is not after the reference time, and on the reference
\* date otherwise; the remaining text is the text behind the keyword; and a
\* successful parse returns that datetime.
C25_DayPartDate ==
    Len(invoked) >= 1 =>
        \A i \in 1..Len(PART_OF_DAY_KEYWORDS) :
            \A k \in 1..Len(PART_OF_DAY_KEYWORDS[i].keywords) :
                LET keyword == PART_OF_DAY_KEYWORDS[i].keywords[k]
                    hour == PART_OF_DAY_KEYWORDS[i].hour
                    resolved == DateTime(RefDatePlus(DaysAhead(hour)), Time(hour, 0, 0))
                IN  StartsWith(Lower(LStrip(time_spec)), keyword) =>
                        /\ invoked = <<"day_part">>
                        /\ parsed_datetime = Some(resolved)
                        /\ remaining_message = LStrip(From(LStrip(time_spec), Len(keyword)))
                        /\ Succeeded => outcome.dt = Some(resolved)

\* C25 witness: a part of day at the reference time itself has been
\* resolved, and parse has returned
C25_Witness ==
    /\ Succeeded
    /\ invoked = <<"day_part">>
    /\ ~is_tomorrow
    /\ Val(parsed_datetime).time = ref_dt.time

\* C26: a successful parse of an input that starts with a tomorrow keyword
\* returns a datetime on the reference date plus one day, for a clock time
\* and for a part-of-day keyword, whether or not the time has passed on the
\* reference date, and on the reference date plus two days for the midnight
\* keyword; never on an earlier date.
C26_TomorrowDate ==
    (Succeeded /\ is_tomorrow) =>
        /\ ~DateBefore(Val(outcome.dt).date, RefDatePlus(1))
        /\ LastInvoked \in {"day_part", "timestamp"}
        /\ Val(outcome.dt).date =
                IF LastInvoked = "day_part" /\ Val(outcome.dt).time = Time(0, 0, 0)
                THEN RefDatePlus(2) ELSE RefDatePlus(1)

\* C26 witness: a clock time that had not passed on the reference date was
\* given for tomorrow, so that the resolver returned the reference date
C26_Witness ==
    /\ Succeeded
    /\ is_tomorrow
    /\ LastInvoked = "timestamp"
    /\ Val(parsed_datetime).date = ref_dt.date

\* the tokens accepted so far are the first tokens of the time specification
AcceptedArePrefix ==
    /\ Len(d.parsed_tokens) <= Len(SpecTokens)
    /\ d.parsed_tokens = SubSeq(SpecTokens, 1, Len(d.parsed_tokens))
\* the text of the time specification behind its first n tokens
RECURSIVE BehindTokens(_, _)
BehindTokens(s, n) ==
    IF n = 0 THEN Strip(s)
    ELSE BehindTokens(From(LStrip(s), WordLen(LStrip(s), 0)), n - 1)

\* C27: in heuristic mode the tokens accepted into the duration specifier
\* are, at every point of the loop, the first tokens of the time
\* specification, in order and without a gap, and the message that
\* parse_duration returns is the text behind the last accepted pair.
C27_AcceptedTokensArePrefix ==
    (Len(invoked) = 3 /\ quoted_text = <<>>) =>
        /\ AcceptedArePrefix
        /\ ~IsNone(parsed_datetime) =>
                remaining_message = BehindTokens(time_spec, Len(d.parsed_tokens))

\* the pairs of the time specification as the heuristic loop reads them,
\* and those of them whose value is a number and whose keyword is a unit
SpecPairs == 1..(Len(SpecTokens) \div 2)
ParsedPairs == {i \in SpecPairs : IsNumber(SpecTokens[2 * i - 1]) /\ IsUnit(SpecTokens[2 * i])}

\* C28: in heuristic mode parse_duration queues or raises a duplicate-unit
\* error only if two pairs whose value and keyword both parse give the same
\* logical unit; a pair whose value does not parse never does.
C28_NoSpuriousDuplicate ==
    (Len(invoked) = 3 /\ quoted_text = <<>>) =>
        ((d.duplicate_keyword_errors # <<>> \/ Failed("duplicate keyword")
            \/ Failed("duplicate keywords")) =>
                \E i, j \in ParsedPairs :
                    i # j /\ UnitOf(SpecTokens[2 * i]) = UnitOf(SpecTokens[2 * j]))

\* the time specification is nothing but (number, unit) pairs
PureDurationText ==
    /\ SpecTokens # <<>>
    /\ Len(SpecTokens) % 2 = 0
    /\ ParsedPairs = SpecPairs

\* C29: on a time specification of (number, unit) pairs only, a zero value
\* included, parse_duration gives the same outcome with was_quoted true and
\* false: both raise, both return None, or both return the same datetime,
\* the heuristic mode with the empty message.
C29_StrictAndHeuristicAgree ==
    (DurationDone /\ PureDurationText) =>
        LET strict == parse_duration(time_spec, TRUE, ref_dt)
            heuristic == parse_duration(time_spec, FALSE, ref_dt)
        IN  /\ HasRaised(strict) <=> HasRaised(heuristic)
            /\ strict.dt = heuristic.dt
            /\ ~IsNone(heuristic.dt) => heuristic.text = EmptyStr

(***************************************************************************)
(* The limit of reminders per user.                                        *)
(***************************************************************************)
\* the invocation that begins in this step, as the last of invocations'
Begun == invocations'[Len(invocations')]

====
